---------------------------- MODULE Spec2Model ----------------------------
(***************************************************************************)
(* Mock IMU BLE transmitter (mock_transmiter).                             *)
(*                                                                         *)
(*   Spec       the streaming engine: BleStreamer.run() on either backend  *)
(*              (_WinRtBleStreamer / _BlessBleStreamer), with the BLE      *)
(*              stack, the clients, task cancellation and a concurrent     *)
(*              caller of stop() as environment.                           *)
(*   SpecChunk  the pure function _chunk_bytes on bounded inputs.          *)
(*   SpecParse  _parse_serial_log, row by row, on bounded inputs.          *)
(*   SpecLoad   load_csv: schema detection on the header, then the rows.   *)
(*   SpecEncode build_phone_packet on bounded lists of readings.           *)
(*   SpecMain   async_main: the file, load_csv, build_phone_packet, the    *)
(*              streamer and its run.                                      *)
(*   SpecReuse  the streaming engine with run() called again on the same   *)
(*              instance.                                                  *)
(*   SpecLive   the streaming engine with loop_forever = False, the event  *)
(*              loop resuming run() whenever the call it awaits returns.   *)
(***************************************************************************)
EXTENDS Integers, Sequences, FiniteSets, TLC

(***************************************************************************)
(* Bounds of the model.                                                    *)
(***************************************************************************)
\* longest payload of an engine run, in bytes
MaxLen == 2
\* byte values are 0..MaxByte
MaxByte == 1
\* longest input of the chunker, and its largest chunk size
CMaxLen == 4
CMaxMtu == 3
\* chunk sizes (config.mtu) are 1..MaxMtu
MaxMtu == 2
\* delivery passes a looping run may begin
MaxPasses == 2
\* subscribe/unsubscribe events of the BLE clients in one run
MaxChurn == 3
\* calls of stop() by a task other than run()
MaxExtStops == 1
\* most rows of a serial-log file
MaxRows == 3
\* most rows of a file with the required columns given to load_csv
MaxCRows == 2
\* most rows of a serial-log file given to load_csv, and of any file given to
\* async_main
MaxFileRows == 1
\* most calls of run() on one streamer
MaxRuns == 2
\* most readings of a list given to build_phone_packet
MaxReadings == 3

\* the BLE centrals that may subscribe
Clients == {"c1", "c2"}

Bytes == 0..MaxByte

Min(a, b) == IF a < b THEN a ELSE b

Range(s) == {s[i] : i \in 1..Len(s)}

\* all sequences over S of length at most n
SeqsUpTo(S, n) == UNION {[1..m -> S] : m \in 0..n}

(***************************************************************************)
(* Chunker: bluetooth.py, _chunk_bytes.                                    *)
(***************************************************************************)
\* Python slice data[i:j] for 0 <= i <= j (indices clipped to len(data))
Slice(data, i, j) == SubSeq(data, i + 1, Min(j, Len(data)))

\* Python list(range(0, n, step)) for step >= 1
RangeStarts(n, step) == [k \in 1..((n + step - 1) \div step) |-> (k - 1) * step]

\* mutant: the "or [b'']" fallback dropped
chunk_bytes_no_fallback(data, mtu) ==
    LET starts == RangeStarts(Len(data), mtu)
    IN  [k \in 1..Len(starts) |-> Slice(data, starts[k], starts[k] + mtu)]

\* mutant: slices one byte short (data[i : i + mtu - 1])
chunk_bytes_short(data, mtu) ==
    LET starts == RangeStarts(Len(data), mtu)
        list   == [k \in 1..Len(starts) |-> Slice(data, starts[k], starts[k] + mtu - 1)]
    IN  IF list = <<>> THEN << <<>> >> ELSE list

\* [data[i : i + mtu] for i in range(0, len(data), mtu)] or [b""]
chunk_bytes(data, mtu) ==
    LET starts == RangeStarts(Len(data), mtu)
        list   == [k \in 1..Len(starts) |-> Slice(data, starts[k], starts[k] + mtu)]
    IN  IF list = <<>> THEN << <<>> >> ELSE list

(***************************************************************************)
(* State.                                                                  *)
(***************************************************************************)
VARIABLES
    \* ---- streaming engine (bluetooth.py) ----
    backend,        \* "winrt" | "bless": sys.platform == "win32" or not
    payload,        \* self.payload
    mtu,            \* config.mtu
    loop_forever,   \* config.loop_forever
    chunks,         \* self._chunk_bytes / self._chunks
    server,         \* self._provider / self._server is not None
    characteristic, \* the characteristic exists (self._characteristic is not None)
    advertising,    \* self._advertising (WinRT only)
    adv_started,    \* self._adv_started is set
    stop_evt,       \* self._stop_evt is set
    charValue,      \* the characteristic's read value: <<>> unset, <<chunk>> set
    srvRunning,     \* the BLE stack advertises the service
    subs,           \* the stack's subscribed clients (owned by the backend)
    subscribers,    \* stream(): the local snapshot list of a pass (WinRT)
    ci,             \* stream(): index of the current client in subscribers
    ki,             \* stream(): index of the current chunk
    pass,           \* delivery passes begun
    pc,             \* position of the run() task
    exc,            \* exception propagating out of run(): "none" or its kind
    sent,           \* notifications issued: [p: pass, to: set of clients, k: chunk index]
    snaps,          \* history: the subscriber snapshot polled for each pass
    startCalls,     \* calls of start()
    runStops,       \* calls of stop() made by run()
    extStops,       \* calls of stop() made by another task
    teardowns,      \* stop_advertising() / server.stop() calls reaching the stack
    churn,          \* subscribe/unsubscribe events so far
    stopAt,         \* history: Len(sent) when stop_evt was first set, -1 before
    \* ---- chunker ----
    cData,          \* _chunk_bytes: data
    cMtu,           \* _chunk_bytes: mtu
    cOut,           \* _chunk_bytes: the list returned
    cpc,            \* "call" before, "ret" after the call
    \* ---- serial-log parser (messages_builder.py) ----
    rows,           \* the rows the csv.DictReader yields
    ri,             \* index of the next row of the for loop
    pending_accel,  \* pending_accel
    readings,       \* readings
    ppc,            \* "loop" in the for loop, "ret" after return, "raised"
                    \* when an exception left the function
    \* ---- load_csv (messages_builder.py) ----
    header,         \* reader.fieldnames, as a set; {} when there is no header
    crows,          \* the rows of the file: the cells of the required columns
    li,             \* index of the next row of the for loop
    lrows,          \* rows: the list load_csv builds
    schema,         \* the branch taken: "none", "canonical" or "serial_log"
    lret,           \* <<>> before a return, <<list>> once load_csv returned it
    lerr,           \* the error load_csv raised, "none" when none
    lpc,            \* "open", "rows", "serial", "ret" or "raised"
    \* ---- build_phone_packet (messages_builder.py) ----
    readings_list,  \* readings_list
    buffer,         \* the tables the builder holds; an offset is an index
    reading_offsets,\* reading_offsets
    vec,            \* the readings vector while it is written
    ei,             \* index of the next element of the running for loop
    packet,         \* <<>> before the return, <<root table>> after
    epc,            \* "tables", "vector", "finish" or "ret"
    \* ---- async_main (main.py) ----
    csvExists,      \* args.csv.exists()
    once,           \* args.once
    argMtu,         \* args.mtu
    encodes,        \* calls of build_phone_packet so far
    mexc,           \* the exception that left async_main, "none" when none
    mpc             \* "exists", "load", "build", "stream", "ret" or "raised"

engineVars == <<backend, payload, mtu, loop_forever, chunks, server, characteristic,
                advertising, adv_started, stop_evt, charValue, srvRunning, subs,
                subscribers, ci, ki, pass, pc, exc, sent, snaps, startCalls,
                runStops, extStops, teardowns, churn, stopAt>>

chunkVars == <<cData, cMtu, cOut, cpc>>

parseVars == <<rows, ri, pending_accel, readings, ppc>>

loadVars == <<header, crows, li, lrows, schema, lret, lerr, lpc>>

encVars == <<readings_list, buffer, reading_offsets, vec, ei, packet, epc>>

mainVars == <<csvExists, once, argMtu, encodes, mexc, mpc>>

\* the variables outside the engine
pureVars == <<chunkVars, parseVars, loadVars, encVars, mainVars>>

\* the variables outside the chunker, the parser, load_csv and the encoder
notChunk == <<engineVars, parseVars, loadVars, encVars, mainVars>>

notParse == <<engineVars, chunkVars, loadVars, encVars, mainVars>>

notLoad == <<engineVars, chunkVars, encVars, mainVars>>

notEncode == <<engineVars, chunkVars, parseVars, loadVars, mainVars>>

vars == <<engineVars, chunkVars, parseVars, loadVars, encVars, mainVars>>


(***************************************************************************)
(* Streaming engine: bluetooth.py.                                         *)
(***************************************************************************)
\* payloads the engine is run on: one of each length 0..MaxLen
EnginePayloads == {[i \in 1..n |-> i % (MaxByte + 1)] : n \in 0..MaxLen}

\* all orders in which the stack may list the clients of set S
Orderings(S) ==
    {s \in [1..Cardinality(S) -> S] : \A i, j \in 1..Cardinality(S) : s[i] = s[j] => i = j}

\* positions at which the run() task is suspended in an await, so that other
\* tasks run and a cancellation is delivered
Suspended == {"start_svc", "start_char", "start_adv", "poll", "poll_sleep", "chunk_sleep"}

\* the chunker's variables while another specification runs
ChunkOff ==
    /\ cData = <<>>
    /\ cMtu = 1
    /\ cOut = <<>>
    /\ cpc = "off"

\* the parser's variables while another specification runs
ParseOff ==
    /\ rows = <<>>
    /\ ri = 1
    /\ pending_accel = <<1, 1, 1>>
    /\ readings = <<>>
    /\ ppc = "off"

\* load_csv's variables while another specification runs
LoadOff ==
    /\ header = {}
    /\ crows = <<>>
    /\ li = 1
    /\ lrows = <<>>
    /\ schema = "none"
    /\ lret = <<>>
    /\ lerr = "none"
    /\ lpc = "off"

\* the encoder's variables while another specification runs
EncodeOff ==
    /\ readings_list = <<>>
    /\ buffer = <<>>
    /\ reading_offsets = <<>>
    /\ vec = <<>>
    /\ ei = 1
    /\ packet = <<>>
    /\ epc = "off"

\* async_main's variables while another specification runs
MainOff ==
    /\ csvExists = TRUE
    /\ once = FALSE
    /\ argMtu = 1
    /\ encodes = 0
    /\ mexc = "none"
    /\ mpc = "off"

\* BleStreamer.__init__ / _WinRtBleStreamer.__init__ / _BlessBleStreamer.__init__
Init ==
    /\ backend \in {"winrt", "bless"}
    /\ payload \in EnginePayloads
    /\ mtu \in 1..MaxMtu
    /\ loop_forever \in BOOLEAN
    /\ chunks = chunk_bytes(payload, mtu)
    /\ server = FALSE
    /\ characteristic = FALSE
    /\ advertising = FALSE
    /\ adv_started = FALSE
    /\ stop_evt = FALSE
    /\ charValue = <<>>
    /\ srvRunning = FALSE
    /\ subs = {}
    /\ subscribers = <<>>
    /\ ci = 1
    /\ ki = 1
    /\ pass = 0
    /\ pc = "run"
    /\ exc = "none"
    /\ sent = <<>>
    /\ snaps = <<>>
    /\ startCalls = 0
    /\ runStops = 0
    /\ extStops = 0
    /\ teardowns = 0
    /\ churn = 0
    /\ stopAt = -1
    /\ ChunkOff
    /\ ParseOff
    /\ LoadOff
    /\ EncodeOff
    /\ MainOff

\* mutant: no try/finally around the body of run()
Unwind_no_cleanup == "done"

\* run(): where control goes when the try body raises (try ... finally)
Unwind == "finally"

\* ---- environment: the BLE clients ----
\* a central subscribes to the advertised characteristic
Subscribe(c) ==
    /\ srvRunning
    /\ c \notin subs
    /\ churn < MaxChurn
    /\ subs' = subs \cup {c}
    /\ churn' = churn + 1
    /\ UNCHANGED <<backend, payload, mtu, loop_forever, chunks, server, characteristic,
                   advertising, adv_started, stop_evt, charValue, srvRunning,
                   subscribers, ci, ki, pass, pc, exc, sent, snaps, startCalls,
                   runStops, extStops, teardowns, stopAt>>
    /\ UNCHANGED pureVars

\* a subscribed central unsubscribes or disconnects
Unsubscribe(c) ==
    /\ c \in subs
    /\ churn < MaxChurn
    /\ subs' = subs \ {c}
    /\ churn' = churn + 1
    /\ UNCHANGED <<backend, payload, mtu, loop_forever, chunks, server, characteristic,
                   advertising, adv_started, stop_evt, charValue, srvRunning,
                   subscribers, ci, ki, pass, pc, exc, sent, snaps, startCalls,
                   runStops, extStops, teardowns, stopAt>>
    /\ UNCHANGED pureVars

\* ---- start() ----
\* run() calls start(): up to the first await (create_async / add_new_service)
\* mutant: start() clears the stop event
RunStart_clears_stop ==
    /\ pc = "run"
    /\ startCalls' = startCalls + 1
    /\ server' = IF backend = "bless" THEN TRUE ELSE server
    /\ stop_evt' = FALSE
    /\ pc' = "start_svc"
    /\ UNCHANGED <<backend, payload, mtu, loop_forever, chunks, characteristic,
                   advertising, adv_started, charValue, srvRunning, subs,
                   subscribers, ci, ki, pass, exc, sent, snaps,
                   runStops, extStops, teardowns, churn, stopAt>>
    /\ UNCHANGED pureVars

RunStart ==
    /\ pc = "run"
    /\ startCalls' = startCalls + 1
    /\ server' = IF backend = "bless" THEN TRUE ELSE server
    /\ pc' = "start_svc"
    /\ UNCHANGED <<backend, payload, mtu, loop_forever, chunks, characteristic,
                   advertising, adv_started, stop_evt, charValue, srvRunning, subs,
                   subscribers, ci, ki, pass, exc, sent, snaps,
                   runStops, extStops, teardowns, churn, stopAt>>
    /\ UNCHANGED pureVars

\* create_async succeeded (res.error == 0) / add_new_service returned
StartSvcOk ==
    /\ pc = "start_svc"
    /\ server' = TRUE
    /\ pc' = "start_char"
    /\ UNCHANGED <<backend, payload, mtu, loop_forever, chunks, characteristic,
                   advertising, adv_started, stop_evt, charValue, srvRunning, subs,
                   subscribers, ci, ki, pass, exc, sent, snaps, startCalls,
                   runStops, extStops, teardowns, churn, stopAt>>
    /\ UNCHANGED pureVars

\* mutant: run() starts over when start() fails
StartFail_retry ==
    /\ pc \in {"start_svc", "start_char", "start_adv"}
    /\ exc' = "start_failed"
    /\ pc' = "run"
    /\ UNCHANGED <<backend, payload, mtu, loop_forever, chunks, server, characteristic,
                   advertising, adv_started, stop_evt, charValue, srvRunning, subs,
                   subscribers, ci, ki, pass, sent, snaps, startCalls,
                   runStops, extStops, teardowns, churn, stopAt>>
    /\ UNCHANGED pureVars

\* a step of start() fails: res.error != 0 (RuntimeError) or the stack raises
StartFail ==
    /\ pc \in {"start_svc", "start_char", "start_adv"}
    /\ exc' = "start_failed"
    /\ pc' = Unwind
    /\ UNCHANGED <<backend, payload, mtu, loop_forever, chunks, server, characteristic,
                   advertising, adv_started, stop_evt, charValue, srvRunning, subs,
                   subscribers, ci, ki, pass, sent, snaps, startCalls,
                   runStops, extStops, teardowns, churn, stopAt>>
    /\ UNCHANGED pureVars

\* WinRT: create_characteristic_async returned; static value, start_advertising,
\* _advertising and _adv_started set.
StartCharWinRt ==
    /\ pc = "start_char"
    /\ backend = "winrt"
    /\ characteristic' = TRUE
    /\ charValue' = IF payload # <<>> THEN <<chunks[1]>> ELSE <<>>
    /\ srvRunning' = TRUE
    /\ advertising' = TRUE
    /\ adv_started' = TRUE
    /\ pc' = "wait_started"
    /\ UNCHANGED <<backend, payload, mtu, loop_forever, chunks, server,
                   stop_evt, subs, subscribers, ci, ki, pass, exc, sent, snaps,
                   startCalls, runStops, extStops, teardowns, churn, stopAt>>
    /\ UNCHANGED pureVars

\* Bless: add_new_characteristic returned; char.value = chunks[0]; server.start() awaited
StartCharBless ==
    /\ pc = "start_char"
    /\ backend = "bless"
    /\ characteristic' = TRUE
    /\ charValue' = IF chunks # <<>> THEN <<chunks[1]>> ELSE << <<>> >>
    /\ pc' = "start_adv"
    /\ UNCHANGED <<backend, payload, mtu, loop_forever, chunks, server,
                   advertising, adv_started, stop_evt, srvRunning, subs,
                   subscribers, ci, ki, pass, exc, sent, snaps, startCalls,
                   runStops, extStops, teardowns, churn, stopAt>>
    /\ UNCHANGED pureVars

\* Bless: server.start() returned; _adv_started set
StartAdvBless ==
    /\ pc = "start_adv"
    /\ srvRunning' = TRUE
    /\ adv_started' = TRUE
    /\ pc' = "wait_started"
    /\ UNCHANGED <<backend, payload, mtu, loop_forever, chunks, server, characteristic,
                   advertising, stop_evt, charValue, subs,
                   subscribers, ci, ki, pass, exc, sent, snaps, startCalls,
                   runStops, extStops, teardowns, churn, stopAt>>
    /\ UNCHANGED pureVars

\* wait_started() returns once _adv_started is set; stream() is entered and
\* raises RuntimeError when the characteristic / server is missing
WaitStarted ==
    /\ pc = "wait_started"
    /\ adv_started
    /\ IF (backend = "winrt" /\ characteristic) \/ (backend = "bless" /\ server)
       THEN pc' = "loop" /\ exc' = exc
       ELSE pc' = Unwind /\ exc' = "not_started"
    /\ UNCHANGED <<backend, payload, mtu, loop_forever, chunks, server, characteristic,
                   advertising, adv_started, stop_evt, charValue, srvRunning, subs,
                   subscribers, ci, ki, pass, sent, snaps, startCalls,
                   runStops, extStops, teardowns, churn, stopAt>>
    /\ UNCHANGED pureVars

\* ---- stop() ----
\* _WinRtBleStreamer.stop / _BlessBleStreamer.stop: the teardown reaches the
\* stack when the provider is advertising (WinRT) / the server exists (Bless)
StopTearsDown ==
    IF backend = "winrt" THEN server /\ advertising ELSE server

\* the body of stop(), called by run() or by another task
StopEffect ==
    /\ teardowns' = IF StopTearsDown THEN teardowns + 1 ELSE teardowns
    /\ srvRunning' = IF StopTearsDown THEN FALSE ELSE srvRunning
    /\ advertising' = IF backend = "winrt" /\ StopTearsDown THEN FALSE ELSE advertising
    /\ stop_evt' = TRUE
    /\ stopAt' = IF stop_evt THEN stopAt ELSE Len(sent)

\* ---- stream() ----
\* mutant: the loop never looks at the stop event (while True)
StopRequested_never == FALSE

\* the loop condition of stream(): self._stop_evt.is_set()
StopRequested == stop_evt

\* mutant: the loop_forever test is lost and every pass loops
AfterPass_always_loop == "loop"

\* after a pass: "if not self.config.loop_forever: break", else the loop head
AfterPass == IF loop_forever THEN "loop" ELSE "finally"

\* mutant: an empty snapshot is not waited out
NoSubscribers_never(list) == FALSE

\* "if not subscribers" (WinRT)
NoSubscribers(list) == list = <<>>

\* "await self._server.is_connected()" (Bless)
IsConnected == subs # {}

\* the loop is left: the stop event is set, stream() returns
LoopExit ==
    /\ pc = "loop"
    /\ StopRequested
    /\ pc' = "finally"
    /\ UNCHANGED <<backend, payload, mtu, loop_forever, chunks, server, characteristic,
                   advertising, adv_started, stop_evt, charValue, srvRunning, subs,
                   subscribers, ci, ki, pass, exc, sent, snaps, startCalls,
                   runStops, extStops, teardowns, churn, stopAt>>
    /\ UNCHANGED pureVars

\* WinRT: subscribers = list(subscribed_clients); sleep when empty, else the
\* pass begins with the first client and the first chunk
PollWinRt ==
    /\ pc = "loop"
    /\ backend = "winrt"
    /\ ~StopRequested
    /\ \E list \in Orderings(subs) :
         /\ subscribers' = list
         /\ IF NoSubscribers(list)
            THEN /\ pc' = "poll_sleep"
                 /\ UNCHANGED <<pass, snaps, ci, ki>>
            ELSE /\ pass < MaxPasses
                 /\ pass' = pass + 1
                 /\ snaps' = Append(snaps, Range(list))
                 /\ ci' = 1
                 /\ ki' = 1
                 /\ pc' = IF list = <<>> THEN AfterPass ELSE "notify"
    /\ UNCHANGED <<backend, payload, mtu, loop_forever, chunks, server, characteristic,
                   advertising, adv_started, stop_evt, charValue, srvRunning, subs,
                   exc, sent, startCalls, runStops, extStops, teardowns, churn, stopAt>>
    /\ UNCHANGED pureVars

\* Bless: is_connected() is called and awaited
PollBless ==
    /\ pc = "loop"
    /\ backend = "bless"
    /\ ~StopRequested
    /\ pc' = "poll"
    /\ UNCHANGED <<backend, payload, mtu, loop_forever, chunks, server, characteristic,
                   advertising, adv_started, stop_evt, charValue, srvRunning, subs,
                   subscribers, ci, ki, pass, exc, sent, snaps, startCalls,
                   runStops, extStops, teardowns, churn, stopAt>>
    /\ UNCHANGED pureVars

\* Bless: is_connected() returned; sleep when false, else the pass begins
PollBlessDone ==
    /\ pc = "poll"
    /\ IF ~IsConnected
       THEN /\ pc' = "poll_sleep"
            /\ UNCHANGED <<pass, snaps, ci, ki>>
       ELSE /\ pass < MaxPasses
            /\ pass' = pass + 1
            /\ snaps' = Append(snaps, subs)
            /\ ci' = 1
            /\ ki' = 1
            /\ pc' = "notify"
    /\ UNCHANGED <<backend, payload, mtu, loop_forever, chunks, server, characteristic,
                   advertising, adv_started, stop_evt, charValue, srvRunning, subs,
                   subscribers, exc, sent, startCalls, runStops, extStops, teardowns,
                   churn, stopAt>>
    /\ UNCHANGED pureVars

\* asyncio.sleep(0.5) / asyncio.sleep(0.25) returned: continue
\* mutant: the wait for a subscriber is given up after one sleep
PollSleepDone_gives_up ==
    /\ pc = "poll_sleep"
    /\ pc' = "finally"
    /\ UNCHANGED <<backend, payload, mtu, loop_forever, chunks, server, characteristic,
                   advertising, adv_started, stop_evt, charValue, srvRunning, subs,
                   subscribers, ci, ki, pass, exc, sent, snaps, startCalls,
                   runStops, extStops, teardowns, churn, stopAt>>
    /\ UNCHANGED pureVars

PollSleepDone ==
    /\ pc = "poll_sleep"
    /\ pc' = "loop"
    /\ UNCHANGED <<backend, payload, mtu, loop_forever, chunks, server, characteristic,
                   advertising, adv_started, stop_evt, charValue, srvRunning, subs,
                   subscribers, ci, ki, pass, exc, sent, snaps, startCalls,
                   runStops, extStops, teardowns, churn, stopAt>>
    /\ UNCHANGED pureVars

\* who a notification goes to: the client of the inner loop (WinRT); every
\* currently subscribed client, update_value naming none (Bless)
Recipients == IF backend = "winrt" THEN {subscribers[ci]} ELSE subs

\* notify_value_for_subscribed_client_async(chunk, client) /
\* char.value = chunk; update_value(...): the notification is issued
\* mutant: the payload is cut again, with another chunk size, when a chunk
\* is about to be sent
Offered_rechunked ==
    LET again == chunk_bytes(payload, mtu + 1)
    IN  again[Min(ki, Len(again))]

\* "for chunk in self._chunk_buffers" / "for chunk in self._chunks": the chunk
\* the loop is at, out of the list made in __init__
Offered == chunks[ki]

\* mutant: the notification leaves the value of the characteristic alone
NotifyOk_keeps_value ==
    /\ pc = "notify"
    /\ sent' = Append(sent, [p |-> pass, to |-> Recipients, k |-> ki, data |-> Offered])
    /\ pc' = "chunk_sleep"
    /\ UNCHANGED <<backend, payload, mtu, loop_forever, chunks, server, characteristic,
                   advertising, adv_started, stop_evt, charValue, srvRunning, subs,
                   subscribers, ci, ki, pass, exc, snaps, startCalls,
                   runStops, extStops, teardowns, churn, stopAt>>
    /\ UNCHANGED pureVars

NotifyOk ==
    /\ pc = "notify"
    /\ sent' = Append(sent, [p |-> pass, to |-> Recipients, k |-> ki, data |-> Offered])
    /\ charValue' = IF backend = "bless" THEN <<chunks[ki]>> ELSE charValue
    /\ pc' = "chunk_sleep"
    /\ UNCHANGED <<backend, payload, mtu, loop_forever, chunks, server, characteristic,
                   advertising, adv_started, stop_evt, srvRunning, subs,
                   subscribers, ci, ki, pass, exc, snaps, startCalls,
                   runStops, extStops, teardowns, churn, stopAt>>
    /\ UNCHANGED pureVars

\* mutant: the failure is caught per client; the pass goes on with the next client
NotifyFail_isolated ==
    /\ pc = "notify"
    /\ exc' = "notify_failed"
    /\ charValue' = IF backend = "bless" THEN <<chunks[ki]>> ELSE charValue
    /\ IF backend = "winrt" /\ ci < Len(subscribers)
       THEN ci' = ci + 1 /\ ki' = 1 /\ pc' = "notify"
       ELSE ci' = ci /\ ki' = ki /\ pc' = AfterPass
    /\ UNCHANGED <<backend, payload, mtu, loop_forever, chunks, server, characteristic,
                   advertising, adv_started, stop_evt, srvRunning, subs,
                   subscribers, pass, sent, snaps, startCalls,
                   runStops, extStops, teardowns, churn, stopAt>>
    /\ UNCHANGED pureVars

\* the notify call raises: no handler in stream(), the exception leaves it
NotifyFail ==
    /\ pc = "notify"
    /\ exc' = "notify_failed"
    /\ charValue' = IF backend = "bless" THEN <<chunks[ki]>> ELSE charValue
    /\ pc' = Unwind
    /\ UNCHANGED <<backend, payload, mtu, loop_forever, chunks, server, characteristic,
                   advertising, adv_started, stop_evt, srvRunning, subs,
                   subscribers, ci, ki, pass, sent, snaps, startCalls,
                   runStops, extStops, teardowns, churn, stopAt>>
    /\ UNCHANGED pureVars

\* mutant: the loops nested the other way round (for chunk: for client)
NextPos_chunk_major ==
    IF backend = "winrt" /\ ci < Len(subscribers) THEN [c |-> ci + 1, k |-> ki, at |-> "notify"]
    ELSE IF ki < Len(chunks) THEN [c |-> 1, k |-> ki + 1, at |-> "notify"]
    ELSE [c |-> ci, k |-> ki, at |-> AfterPass]

\* "for client in subscribers: for chunk in chunks": the next iteration
NextPos ==
    IF ki < Len(chunks) THEN [c |-> ci, k |-> ki + 1, at |-> "notify"]
    ELSE IF backend = "winrt" /\ ci < Len(subscribers) THEN [c |-> ci + 1, k |-> 1, at |-> "notify"]
    ELSE [c |-> ci, k |-> ki, at |-> AfterPass]

\* asyncio.sleep(interval_s) returned: next chunk, next client or end of pass
ChunkSleepDone ==
    /\ pc = "chunk_sleep"
    /\ ci' = NextPos.c
    /\ ki' = NextPos.k
    /\ pc' = NextPos.at
    /\ UNCHANGED <<backend, payload, mtu, loop_forever, chunks, server, characteristic,
                   advertising, adv_started, stop_evt, charValue, srvRunning, subs,
                   subscribers, pass, exc, sent, snaps, startCalls,
                   runStops, extStops, teardowns, churn, stopAt>>
    /\ UNCHANGED pureVars

\* ---- run(): finally ----
\* "finally: await self.stop()", then run() returns or re-raises
RunFinally ==
    /\ pc = "finally"
    /\ runStops' = runStops + 1
    /\ StopEffect
    /\ pc' = "done"
    /\ UNCHANGED <<backend, payload, mtu, loop_forever, chunks, server, characteristic,
                   adv_started, charValue, subs, subscribers, ci, ki, pass, exc,
                   sent, snaps, startCalls, extStops, churn>>
    /\ UNCHANGED pureVars

\* ---- environment: other tasks ----
\* the task running run() is cancelled (KeyboardInterrupt under asyncio.run):
\* CancelledError is raised at the await it is suspended in
Cancel ==
    /\ pc \in Suspended
    /\ exc' = "cancelled"
    /\ pc' = Unwind
    /\ UNCHANGED <<backend, payload, mtu, loop_forever, chunks, server, characteristic,
                   advertising, adv_started, stop_evt, charValue, srvRunning, subs,
                   subscribers, ci, ki, pass, sent, snaps, startCalls,
                   runStops, extStops, teardowns, churn, stopAt>>
    /\ UNCHANGED pureVars

\* BleStreamer.stop() called by another task while run() is suspended
ExtStop ==
    /\ pc \in Suspended
    /\ extStops < MaxExtStops
    /\ extStops' = extStops + 1
    /\ StopEffect
    /\ UNCHANGED <<backend, payload, mtu, loop_forever, chunks, server, characteristic,
                   adv_started, charValue, subs, subscribers, ci, ki, pass, pc, exc,
                   sent, snaps, startCalls, runStops, churn>>
    /\ UNCHANGED pureVars

Next ==
    \/ \E c \in Clients : Subscribe(c)
    \/ \E c \in Clients : Unsubscribe(c)
    \/ RunStart
    \/ StartSvcOk
    \/ StartFail
    \/ StartCharWinRt
    \/ StartCharBless
    \/ StartAdvBless
    \/ WaitStarted
    \/ LoopExit
    \/ PollWinRt
    \/ PollBless
    \/ PollBlessDone
    \/ PollSleepDone
    \/ NotifyOk
    \/ NotifyFail
    \/ ChunkSleepDone
    \/ RunFinally
    \/ Cancel
    \/ ExtStop

Spec == Init /\ [][Next]_vars

(***************************************************************************)
(* SpecReuse: the engine, with run() called again on the same streamer     *)
(* after a run has ended.                                                  *)
(***************************************************************************)
\* the caller awaits streamer.run() once more: the new call starts with no
\* exception pending, on the fields the last run left
RunAgain ==
    /\ pc = "done"
    /\ startCalls < MaxRuns
    /\ pc' = "run"
    /\ exc' = "none"
    /\ UNCHANGED <<backend, payload, mtu, loop_forever, chunks, server, characteristic,
                   advertising, adv_started, stop_evt, charValue, srvRunning, subs,
                   subscribers, ci, ki, pass, sent, snaps, startCalls,
                   runStops, extStops, teardowns, churn, stopAt>>
    /\ UNCHANGED pureVars

NextReuse ==
    \/ Next
    \/ RunAgain

\* the streamers run again: those that send their payload as one chunk
InitReuse ==
    /\ Init
    /\ mtu = MaxMtu

SpecReuse == InitReuse /\ [][NextReuse]_vars

(***************************************************************************)
(* SpecLive: the engine run once with loop_forever = False. run() is one   *)
(* task: whenever the call it awaits has returned, the event loop resumes  *)
(* it, so the step of the task that is enabled is eventually taken. The    *)
(* clients, a cancellation and a stop() of another task need not happen.   *)
(***************************************************************************)
\* the steps of the run() task
RunStep ==
    \/ RunStart
    \/ StartSvcOk
    \/ StartFail
    \/ StartCharWinRt
    \/ StartCharBless
    \/ StartAdvBless
    \/ WaitStarted
    \/ LoopExit
    \/ PollWinRt
    \/ PollBless
    \/ PollBlessDone
    \/ PollSleepDone
    \/ NotifyOk
    \/ NotifyFail
    \/ ChunkSleepDone
    \/ RunFinally

\* the streamers made with loop_forever = False ("--once")
InitLive ==
    /\ Init
    /\ ~loop_forever

SpecLive == InitLive /\ [][Next]_vars /\ WF_vars(RunStep)

(***************************************************************************)
(* SpecChunk: _chunk_bytes applied to every bounded input.                 *)
(***************************************************************************)
\* the engine's variables while another specification runs
EngineOff ==
    /\ backend = "bless"
    /\ payload = <<>>
    /\ mtu = 1
    /\ loop_forever = FALSE
    /\ chunks = << <<>> >>
    /\ server = FALSE
    /\ characteristic = FALSE
    /\ advertising = FALSE
    /\ adv_started = FALSE
    /\ stop_evt = FALSE
    /\ charValue = <<>>
    /\ srvRunning = FALSE
    /\ subs = {}
    /\ subscribers = <<>>
    /\ ci = 1
    /\ ki = 1
    /\ pass = 0
    /\ pc = "off"
    /\ exc = "none"
    /\ sent = <<>>
    /\ snaps = <<>>
    /\ startCalls = 0
    /\ runStops = 0
    /\ extStops = 0
    /\ teardowns = 0
    /\ churn = 0
    /\ stopAt = -1

InitChunk ==
    /\ EngineOff
    /\ ParseOff
    /\ LoadOff
    /\ EncodeOff
    /\ MainOff
    /\ cData \in SeqsUpTo(Bytes, CMaxLen)
    /\ cMtu \in 1..CMaxMtu
    /\ cOut = <<>>
    /\ cpc = "call"

\* the call _chunk_bytes(data, mtu)
ChunkCall ==
    /\ cpc = "call"
    /\ cOut' = chunk_bytes(cData, cMtu)
    /\ cpc' = "ret"
    /\ UNCHANGED <<cData, cMtu>>
    /\ UNCHANGED notChunk

NextChunk == ChunkCall

SpecChunk == InitChunk /\ [][NextChunk]_vars

(***************************************************************************)
(* Properties of the streaming engine (checked under Spec).                *)
(***************************************************************************)
\* the notifications of pass p, in the order issued
EventsOf(p) ==
    LET InPass(e) == e.p = p
    IN  SelectSeq(sent, InPass)

\* the places in sent at which client c is notified in pass p
Places(p, c) == {i \in 1..Len(sent) : sent[i].p = p /\ c \in sent[i].to}

\* client c has been notified of chunk k in pass p
Received(c, p, k) == \E i \in Places(p, c) : sent[i].k = k

\* pass p ran to its end
PassComplete(p) ==
    \/ p < pass
    \/ p = pass /\ pc \in {"loop", "poll", "poll_sleep"}
    \/ p = pass /\ pc \in {"finally", "done"} /\ exc = "none"

\* the clients pass p iterates over: the polled list (WinRT); one broadcast (Bless)
Targets(p) == IF backend = "winrt" THEN Cardinality(snaps[p]) ELSE 1

\* C1: in every execution of run() - normal completion, a failure of start(),
\* a failure during chunk delivery, a cancellation at a suspension point -
\* run() invokes stop() exactly once, and no notification follows that call.
C1_StopOnceAfterLastNotify ==
    /\ [](pc = "done" => runStops = 1)
    /\ [](pc # "done" => runStops = 0)
    /\ [][runStops' # runStops \/ runStops >= 1 => sent' = sent]_vars

\* C1 witness: a run cancelled in mid-delivery has ended, stop() called once.
C1_Witness ==
    /\ pc = "done"
    /\ exc = "cancelled"
    /\ sent # <<>>
    /\ Len(sent) < Len(chunks)
    /\ runStops = 1

\* C2 as stated: when a notify fails for one client (WinRT), every other
\* subscriber of that pass still receives the full chunk sequence.
C2_FailureIsolated ==
    (backend = "winrt" /\ exc = "notify_failed" /\ pc = "done")
        => \A c \in snaps[pass] \ {subscribers[ci]} :
              \A k \in 1..Len(chunks) : Received(c, pass, k)

\* C2 amended: a notify failure is not contained. It leaves stream(): the
\* engine goes to teardown, nothing is notified after the failed call (neither
\* to that client nor to a later one, nor in a later pass), stop() runs once
\* and the failure stays with the caller of run().
C2_FailureAborts ==
    /\ [](exc = "notify_failed"
            => /\ pc \in {"finally", "done"}
               /\ Len(EventsOf(pass)) = (ci - 1) * Len(chunks) + (ki - 1)
               /\ \A i \in 1..Len(sent) : sent[i].p <= pass
               /\ pc = "done" => runStops = 1)
    /\ [][exc = "notify_failed" => exc' = exc /\ sent' = sent /\ pass' = pass]_vars

\* C2 witness: WinRT, looping run, two clients polled, the notify to the first
\* one failed: the second one got nothing and the run has ended.
C2_Witness ==
    /\ backend = "winrt"
    /\ loop_forever
    /\ exc = "notify_failed"
    /\ pc = "done"
    /\ Len(subscribers) = 2
    /\ ci = 1
    /\ \A i \in 1..Len(sent) : sent[i].to # {subscribers[2]}

\* C3 as stated: once the stop flag is raised, no further chunk is notified.
C3_NoChunkAfterStop ==
    stop_evt => Len(sent) = stopAt

\* C3 amended: the stop flag is read only in the loop condition, before a
\* pass. A stop raised during a pass does not cut it short; the notifications
\* that follow the stop all belong to one pass (the one in progress, or on
\* Bless the one whose is_connected() poll was in flight), it runs to its end,
\* and no pass begins after it: the loop is left for teardown.
C3_StopEndsAfterCurrentPass ==
    stop_evt
        => /\ \A i, j \in (stopAt + 1)..Len(sent) : sent[i].p = sent[j].p
           /\ (pc \in {"finally", "done"} /\ exc = "none" /\ Len(sent) > stopAt)
                 => Len(EventsOf(pass)) = Targets(pass) * Len(chunks)

\* C3 witness: stop() was called by another task in mid-pass, chunks were
\* notified after it, and the run has ended without an exception.
C3_Witness ==
    /\ extStops = 1
    /\ stopAt >= 1
    /\ Len(sent) > stopAt
    /\ sent[stopAt].p = sent[stopAt + 1].p
    /\ pc = "done"
    /\ exc = "none"

\* C4 as stated, on either backend: in a pass every notified client gets the
\* chunks in index order, and of two clients one has the full sequence no
\* later than the other gets its first chunk.
C4_OneClientAtATime ==
    \A p \in 1..pass : \A c \in Clients :
        LET mine == Places(p, c)
        IN  /\ \A i \in mine : sent[i].k = Cardinality({j \in mine : j <= i})
            /\ \A d \in Clients \ {c} :
                 LET theirs == Places(p, d)
                 IN  (mine # {} /\ theirs # {})
                        => \/ /\ \A i \in mine : \A j \in theirs : i <= j
                              /\ Cardinality(mine) = Len(chunks)
                           \/ /\ \A i \in mine : \A j \in theirs : j <= i
                              /\ Cardinality(theirs) = Len(chunks)

\* C4 amended: in a pass the chunks are issued in index order 0..n-1, none
\* skipped, repeated or reordered, up to the end of the pass or the abort of
\* the run. WinRT: each client of the polled list gets the whole sequence
\* before the next client gets its first chunk. Bless: no per-client loop;
\* each chunk is issued once per pass, to all clients subscribed at that moment.
C4_ChunkOrder ==
    \A p \in 1..pass :
        LET E == EventsOf(p)
            n == Len(chunks)
        IN  /\ \A i \in 1..Len(E) : E[i].k = ((i - 1) % n) + 1
            /\ Len(E) <= Targets(p) * n
            /\ PassComplete(p) => Len(E) = Targets(p) * n
            /\ backend = "winrt"
                 => /\ \A i \in 1..Len(E) :
                         Cardinality(E[i].to) = 1 /\ E[i].to \subseteq snaps[p]
                    /\ \A i, j \in 1..Len(E) :
                         (E[i].to = E[j].to) <=> ((i - 1) \div n = (j - 1) \div n)

\* C4 witness: WinRT, a completed pass over two clients and several chunks.
C4_Witness ==
    /\ backend = "winrt"
    /\ pc = "done"
    /\ exc = "none"
    /\ pass = 1
    /\ Cardinality(snaps[1]) = 2
    /\ Len(chunks) >= 2
    /\ Len(sent) = 2 * Len(chunks)

\* C5: with loop_forever false, start() is called once, at most one pass is
\* begun, after it the engine is in teardown and never back at the poll; a run
\* that ends without exception and without an outside stop() has delivered
\* exactly one full pass to the polled set; stop() is called once.
C5_SinglePass ==
    ~loop_forever /\ pc # "off"
        => /\ pass <= 1
           /\ startCalls <= 1
           /\ runStops <= 1
           /\ pass = 1 => pc \in {"notify", "chunk_sleep", "finally", "done"}
           /\ \A i \in 1..Len(sent) : sent[i].p = 1
           /\ (pc \in {"finally", "done"} /\ exc = "none" /\ extStops = 0)
                 => /\ pass = 1
                    /\ startCalls = 1
                    /\ Len(sent) = Targets(1) * Len(chunks)
           /\ pc = "done" => runStops = 1

\* C5 witness: a non-looping run has ended normally after one full pass.
C5_Witness ==
    /\ ~loop_forever
    /\ pc = "done"
    /\ exc = "none"
    /\ extStops = 0
    /\ pass = 1
    /\ Len(chunks) >= 2
    /\ Len(sent) = Targets(1) * Len(chunks)

\* C6: a pass begins only on a poll that found a subscriber; a poll that
\* finds none leads to the poll sleep and nothing is sent until a later poll;
\* every pass is preceded by its own poll, whose result is the membership of
\* that pass (WinRT: exactly the clients notified in it).
C6_GatedByPoll ==
    /\ [](/\ Len(snaps) = pass
          /\ \A p \in 1..Len(snaps) : snaps[p] # {}
          /\ \A i \in 1..Len(sent) :
               /\ sent[i].p \in 1..pass
               /\ backend = "winrt" => sent[i].to \subseteq snaps[sent[i].p]
          /\ \A p \in 1..pass :
               (backend = "winrt" /\ PassComplete(p))
                  => \A c \in snaps[p] : Places(p, c) # {}
          /\ pc = "poll_sleep" /\ backend = "winrt" => subscribers = <<>>)
    /\ [][/\ pass' # pass => /\ pass' = pass + 1
                             /\ pc \in {"loop", "poll"}
                             /\ subs # {}
                             /\ snaps' = Append(snaps, subs)
          /\ sent' # sent => pc = "notify" /\ pass' = pass
          /\ (pc \in {"loop", "poll"} /\ pc' = "poll_sleep") => subs = {}
          /\ pc = "poll_sleep" => pc' \in {"poll_sleep", "loop", "finally"}]_vars

\* C6 witness: WinRT, looping run; the second pass was polled with a
\* membership other than the first one's and has notified a client that was
\* not in the first pass.
C6_Witness ==
    /\ backend = "winrt"
    /\ pass = 2
    /\ \E c \in snaps[2] \ snaps[1] : Places(2, c) # {}
    /\ \E d \in snaps[1] \ snaps[2] : Places(1, d) # {}

\* C7: when start() fails the exception stays with run() (it is never
\* cleared), start() is not called again, the loop of stream() is never
\* reached (no poll, no pass) and nothing is notified.
C7_StartFailureFatal ==
    /\ [](exc = "start_failed"
            => /\ pc \in {"finally", "done"}
               /\ startCalls = 1
               /\ pass = 0
               /\ snaps = <<>>
               /\ sent = <<>>
               /\ ~adv_started)
    /\ [][exc = "start_failed" => exc' = exc /\ startCalls' = startCalls]_vars

\* C7 witness: the run has ended on a failed start(), after the cleanup.
C7_Witness ==
    /\ exc = "start_failed"
    /\ pc = "done"
    /\ server
    /\ runStops = 1

(***************************************************************************)
(* Properties of the chunker (checked under SpecChunk).                    *)
(***************************************************************************)
RECURSIVE Flatten(_)
\* the concatenation of a sequence of byte strings
Flatten(ss) == IF ss = <<>> THEN <<>> ELSE Head(ss) \o Flatten(Tail(ss))

\* C8: the slices of chunk(P, S), concatenated in order, are P, and each
\* slice is at most S long.
C8_RoundTrip ==
    cpc = "ret"
        => /\ Flatten(cOut) = cData
           /\ \A i \in 1..Len(cOut) : Len(cOut[i]) <= cMtu

\* C8 witness: a payload cut into several slices with a shorter last one.
C8_Witness ==
    /\ cpc = "ret"
    /\ Len(cOut) >= 2
    /\ Len(cOut[1]) = cMtu
    /\ Len(cOut[Len(cOut)]) < cMtu

\* C9: chunk never returns an empty sequence; the empty payload gives one
\* empty slice.
C9_NeverEmpty ==
    cpc = "ret"
        => /\ Len(cOut) >= 1
           /\ cData = <<>> => cOut = << <<>> >>

\* C9 witness: the empty payload was chunked into one empty slice.
C9_Witness ==
    /\ cpc = "ret"
    /\ cData = <<>>
    /\ cOut = << <<>> >>

(***************************************************************************)
(* Serial-log parser: messages_builder.py, _parse_serial_log.              *)
(*                                                                         *)
(* A row is [timestamp, data]. The data field is held as the tokens that   *)
(* strip() and split() make of it: a first word (a sequence of characters, *)
(* <<>> when the field is empty or missing) and the tokens after it. A     *)
(* token after the first is [ok, tenths]: text float() accepts, worth      *)
(* tenths/10, or text it rejects. A timestamp is [ok, sec, ms]: text       *)
(* fromisoformat() accepts, sec seconds and ms milliseconds after the      *)
(* epoch, or text it rejects, or None (none) when the row has no such      *)
(* field.                                                                  *)
(***************************************************************************)
W_accel == <<"a", "c", "c", "e", "l">>
W_gyro == <<"g", "y", "r", "o">>
W_temp == <<"t", "e", "m", "p">>
W_accelerometer == W_accel \o <<"e", "r", "o">>

Words == {W_accel, W_gyro, W_temp, W_accelerometer}

Num(t) == [ok |-> TRUE, tenths |-> t]
BadTok == [ok |-> FALSE, tenths |-> 0]

\* the tokens of "5.0 6.9 -2.5", of "8 x 10 3" and of "-0.4 7"
ArgLists == { <<Num(50), Num(69), Num(-25)>>,
              <<Num(80), BadTok, Num(100), Num(30)>>,
              <<Num(-4), Num(70)>> }

GoodStamp == [ok |-> TRUE, none |-> FALSE, sec |-> 2, ms |-> 500]
BadStamp == [ok |-> FALSE, none |-> FALSE, sec |-> 0, ms |-> 0]
NoStamp == [ok |-> FALSE, none |-> TRUE, sec |-> 0, ms |-> 0]

\* the rows a file may hold: every word with every token list under a good
\* timestamp; gyro rows under a bad one; a row with an empty data field; a
\* gyro row with no timestamp field
RowValues ==
    {[timestamp |-> GoodStamp, data |-> [head |-> w, args |-> a]] :
        w \in Words, a \in ArgLists}
    \cup {[timestamp |-> BadStamp, data |-> [head |-> W_gyro, args |-> a]] : a \in ArgLists}
    \cup {[timestamp |-> BadStamp, data |-> [head |-> <<>>, args |-> <<>>]]}
    \cup {[timestamp |-> NoStamp,
            data |-> [head |-> W_gyro, args |-> <<Num(-4), Num(70)>>]]}

\* str.startswith
StartsWith(w, prefix) ==
    Len(w) >= Len(prefix) /\ SubSeq(w, 1, Len(prefix)) = prefix

\* int(x) of a float worth t tenths: truncation toward zero
Trunc(t) == IF t >= 0 THEN t \div 10 ELSE -((-t) \div 10)

\* mutant: the handlers catch ValueError only
Handled_value_error_only(e) == e = "ValueError"

\* "except Exception": the handler of to_int and of ts_to_count catches every
\* exception e
Handled(e) == TRUE

\* to_int: int(float(val)), 1 on any exception
to_int(tok) == IF tok.ok THEN Trunc(tok.tenths) ELSE 1

\* ts_to_count: int(fromisoformat(ts).timestamp() * 1000), 1 on any exception
ts_to_count(ts) == IF ts.ok THEN ts.sec * 1000 + ts.ms ELSE 1

\* the exception float(val) raises on text it rejects leaves to_int
ToIntRaises(tok) == ~tok.ok /\ ~Handled("ValueError")

\* the exception fromisoformat raises, ValueError on text it rejects and
\* TypeError on None, leaves ts_to_count
TsRaises(ts) ==
    ~ts.ok /\ ~Handled(IF ts.none THEN "TypeError" ELSE "ValueError")

\* data.split(): the first word and the tokens after it; [] for an empty field
Parts(data) == IF data.head = <<>> THEN <<>> ELSE <<data.head>> \o data.args

\* mutant: one token that is not a number makes the whole triple (1, 1, 1)
Triple_all_or_nothing(data) ==
    LET parts == Parts(data)
    IN  IF Len(parts) >= 4 /\ \A i \in 2..4 : parts[i].ok
        THEN <<to_int(parts[2]), to_int(parts[3]), to_int(parts[4])>>
        ELSE <<1, 1, 1>>

\* "tuple(to_int(v) for v in parts[1:4])" when len(parts) >= 4, else (1, 1, 1)
Triple(data) ==
    LET parts == Parts(data)
    IN  IF Len(parts) >= 4
        THEN <<to_int(parts[2]), to_int(parts[3]), to_int(parts[4])>>
        ELSE <<1, 1, 1>>

\* an exception leaves the loop body on this row: ts_to_count is called on
\* every row, to_int on the three tokens of an accel or gyro row that has them
RowRaises(row) ==
    \/ TsRaises(row.timestamp)
    \/ /\ StartsWith(row.data.head, W_accel) \/ StartsWith(row.data.head, W_gyro)
       /\ Len(Parts(row.data)) >= 4
       /\ \E i \in 2..4 : ToIntRaises(Parts(row.data)[i])

\* ImuReading(sensor_id=1, timestamp_count=ts_count, aclr_*=pending_accel, rot_*=rot)
MakeReading(ts_count, accel, rot) ==
    [sensor_id |-> 1, timestamp_count |-> ts_count,
     aclr_x |-> accel[1], aclr_y |-> accel[2], aclr_z |-> accel[3],
     rot_x |-> rot[1], rot_y |-> rot[2], rot_z |-> rot[3]]

\* "readings = []; pending_accel = (1, 1, 1)" on a reader over any bounded file
InitParse ==
    /\ EngineOff
    /\ ChunkOff
    /\ LoadOff
    /\ EncodeOff
    /\ MainOff
    /\ rows \in SeqsUpTo(RowValues, MaxRows)
    /\ ri = 1
    /\ pending_accel = <<1, 1, 1>>
    /\ readings = <<>>
    /\ ppc = "loop"

\* the row the for loop is at
Row == rows[ri]

\* "if data.startswith('accel')": the pending triple is replaced
ParseAccel ==
    /\ ppc = "loop"
    /\ ri <= Len(rows)
    /\ StartsWith(Row.data.head, W_accel)
    /\ IF RowRaises(Row)
       THEN /\ ppc' = "raised"
            /\ UNCHANGED <<rows, ri, pending_accel, readings>>
       ELSE /\ pending_accel' = Triple(Row.data)
            /\ ri' = ri + 1
            /\ UNCHANGED <<rows, readings, ppc>>
    /\ UNCHANGED notParse

\* mutant: the pending triple is used up by the reading it goes into
ParseGyro_consumes_pending ==
    /\ ppc = "loop"
    /\ ri <= Len(rows)
    /\ ~StartsWith(Row.data.head, W_accel)
    /\ StartsWith(Row.data.head, W_gyro)
    /\ IF RowRaises(Row)
       THEN /\ ppc' = "raised"
            /\ UNCHANGED <<rows, ri, pending_accel, readings>>
       ELSE /\ readings' = Append(readings,
                     MakeReading(ts_to_count(Row.timestamp), pending_accel, Triple(Row.data)))
            /\ pending_accel' = <<1, 1, 1>>
            /\ ri' = ri + 1
            /\ UNCHANGED <<rows, ppc>>
    /\ UNCHANGED notParse

\* "elif data.startswith('gyro')": one reading is appended
ParseGyro ==
    /\ ppc = "loop"
    /\ ri <= Len(rows)
    /\ ~StartsWith(Row.data.head, W_accel)
    /\ StartsWith(Row.data.head, W_gyro)
    /\ IF RowRaises(Row)
       THEN /\ ppc' = "raised"
            /\ UNCHANGED <<rows, ri, pending_accel, readings>>
       ELSE /\ readings' = Append(readings,
                     MakeReading(ts_to_count(Row.timestamp), pending_accel, Triple(Row.data)))
            /\ ri' = ri + 1
            /\ UNCHANGED <<rows, pending_accel, ppc>>
    /\ UNCHANGED notParse

\* "else: continue": the row is ignored
ParseOther ==
    /\ ppc = "loop"
    /\ ri <= Len(rows)
    /\ ~StartsWith(Row.data.head, W_accel)
    /\ ~StartsWith(Row.data.head, W_gyro)
    /\ IF RowRaises(Row)
       THEN /\ ppc' = "raised"
            /\ UNCHANGED <<rows, ri, pending_accel, readings>>
       ELSE /\ ri' = ri + 1
            /\ UNCHANGED <<rows, pending_accel, readings, ppc>>
    /\ UNCHANGED notParse

\* the reader is exhausted: "return readings"
ParseReturn ==
    /\ ppc = "loop"
    /\ ri > Len(rows)
    /\ ppc' = "ret"
    /\ UNCHANGED <<rows, ri, pending_accel, readings>>
    /\ UNCHANGED notParse

NextParse ==
    \/ ParseAccel
    \/ ParseGyro
    \/ ParseOther
    \/ ParseReturn

SpecParse == InitParse /\ [][NextParse]_vars

(***************************************************************************)
(* Properties of the serial-log parser (checked under SpecParse).          *)
(***************************************************************************)
IsAccelRow(j) == StartsWith(rows[j].data.head, W_accel)

IsGyroRow(j) == StartsWith(rows[j].data.head, W_gyro)

\* the triple written on row j: its first three tokens after the word, each
\* truncated to an integer or 1 when not a number; (1,1,1) with fewer than three
RowTriple(j) ==
    LET a == rows[j].data.args
    IN  IF Len(a) >= 3 THEN <<to_int(a[1]), to_int(a[2]), to_int(a[3])>> ELSE <<1, 1, 1>>

\* the row of the k-th gyro line
GyroRow(k) ==
    CHOOSE j \in 1..Len(rows) :
        IsGyroRow(j) /\ Cardinality({i \in 1..j : IsGyroRow(i)}) = k

\* the triple of the last accel row before row j, (1,1,1) when there is none
AccelBefore(j) ==
    LET A == {a \in 1..(j - 1) : IsAccelRow(a)}
    IN  IF A = {} THEN <<1, 1, 1>>
        ELSE RowTriple(CHOOSE a \in A : \A b \in A : b <= a)

\* C10: the readings returned are, in row order, one per gyro row, each with
\* sensor_id 1, the rotation triple of its row and the acceleration triple of
\* the last accel row before it, (1,1,1) when none precedes; accel rows and
\* rows with any other prefix add no reading.
C10_GyroPairing ==
    ppc = "ret"
        => /\ Len(readings) = Cardinality({j \in 1..Len(rows) : IsGyroRow(j)})
           /\ \A k \in 1..Len(readings) :
                LET j == GyroRow(k)
                    r == readings[k]
                IN  /\ r.sensor_id = 1
                    /\ <<r.rot_x, r.rot_y, r.rot_z>> = RowTriple(j)
                    /\ <<r.aclr_x, r.aclr_y, r.aclr_z>> = AccelBefore(j)

\* C10 witness: an accel row, then two gyro rows: two readings, both with
\* the acceleration of that accel row, which is not the default.
C10_Witness ==
    /\ ppc = "ret"
    /\ Len(rows) = 3
    /\ IsAccelRow(1) /\ IsGyroRow(2) /\ IsGyroRow(3)
    /\ RowTriple(1) = <<5, 6, -2>>
    /\ Len(readings) = 2
    /\ readings[2].aclr_x = 5 /\ readings[2].aclr_y = 6 /\ readings[2].aclr_z = -2
    /\ RowTriple(3) = <<8, 1, 10>>
    /\ readings[2].rot_x = 8 /\ readings[2].rot_y = 1 /\ readings[2].rot_z = 10

\* C11: parsing a serial log never fails: from every file the parser stays in
\* its loop until it returns, no exception leaving it; a gyro row with fewer
\* than three tokens after the word gets the rotation (1,1,1); a timestamp
\* that does not parse, or a row with no timestamp field, gets
\* timestamp_count 1 and one that parses its milliseconds since the epoch; a
\* row whose data field is empty or missing adds no reading.
C11_NeverFails ==
    /\ ppc \in {"loop", "ret"}
    /\ ppc = "loop" => ri \in 1..(Len(rows) + 1)
    /\ ppc = "ret"
        => /\ ri = Len(rows) + 1
           /\ Len(readings) = Cardinality({j \in 1..Len(rows) : IsGyroRow(j)})
           /\ \A k \in 1..Len(readings) :
                LET row == rows[GyroRow(k)]
                    r == readings[k]
                IN  /\ Len(row.data.args) < 3
                        => <<r.rot_x, r.rot_y, r.rot_z>> = <<1, 1, 1>>
                    /\ ~row.timestamp.ok => r.timestamp_count = 1
                    /\ row.timestamp.ok
                        => r.timestamp_count
                             = row.timestamp.sec * 1000 + row.timestamp.ms

\* C11 witness: a file with a row of empty data, a gyro row of two tokens with
\* no timestamp field and a gyro row with a timestamp that does not parse was
\* parsed to the end: two readings with timestamp_count 1, the first with
\* rotation (1,1,1).
C11_Witness ==
    /\ ppc = "ret"
    /\ Len(rows) = 3
    /\ rows[1].data.head = <<>>
    /\ rows[2].timestamp.none /\ IsGyroRow(2) /\ Len(rows[2].data.args) = 2
    /\ ~rows[3].timestamp.ok /\ ~rows[3].timestamp.none /\ IsGyroRow(3)
    /\ Len(readings) = 2
    /\ readings[1].timestamp_count = 1 /\ readings[2].timestamp_count = 1
    /\ <<readings[1].rot_x, readings[1].rot_y, readings[1].rot_z>> = <<1, 1, 1>>

\* the last accel row the loop has passed, 0 when it has passed none
LastAccel ==
    LET A == {a \in 1..(ri - 1) : IsAccelRow(a)}
    IN  IF A = {} THEN 0 ELSE CHOOSE a \in A : \A b \in A : b <= a

\* C18 as stated: the pending triple is (1,1,1) as a whole after an accel row
\* with fewer than three tokens or with a token among the first three that is
\* not a number, and the truncated values only when all three are numbers.
C18_WholeTripleReset ==
    (ppc \in {"loop", "ret"} /\ LastAccel > 0)
        => LET a == rows[LastAccel].data.args
           IN  pending_accel =
                 IF Len(a) >= 3 /\ \A i \in 1..3 : a[i].ok
                 THEN <<Trunc(a[1].tenths), Trunc(a[2].tenths), Trunc(a[3].tenths)>>
                 ELSE <<1, 1, 1>>

\* C18: after an accel row with at least three tokens after the word, each
\* component of the pending triple is the integer-truncated value of its own
\* token, or 1 when that token alone is not a number; after an accel row with
\* fewer than three tokens the triple is (1,1,1); before any accel row it is
\* (1,1,1).
C18_PerTokenDefault ==
    ppc \in {"loop", "ret"}
        => IF LastAccel = 0
           THEN pending_accel = <<1, 1, 1>>
           ELSE LET a == rows[LastAccel].data.args
                IN  IF Len(a) < 3
                    THEN pending_accel = <<1, 1, 1>>
                    ELSE \A i \in 1..3 :
                           pending_accel[i]
                             = IF a[i].ok THEN Trunc(a[i].tenths) ELSE 1

\* C18 witness: the accel row "8 x 10 3" has been read and the pending triple
\* is (8, 1, 10): the second component alone took the default.
C18_Witness ==
    /\ ppc = "loop"
    /\ LastAccel = ri - 1
    /\ LastAccel > 0
    /\ rows[LastAccel].data.args = <<Num(80), BadTok, Num(100), Num(30)>>
    /\ pending_accel = <<8, 1, 10>>

(***************************************************************************)
(* load_csv and ImuReading.from_row: messages_builder.py.                  *)
(*                                                                         *)
(* The header is the set of reader.fieldnames. A row of a file that has    *)
(* the required columns is the record of their cells, a cell being its     *)
(* text as a sequence of characters; a row of a file that has the columns  *)
(* timestamp and data is a row of the serial-log parser.                   *)
(***************************************************************************)
REQUIRED_COLUMNS ==
    <<"sensor_id", "timestamp_count", "aclr_x", "aclr_y", "aclr_z",
      "rot_x", "rot_y", "rot_z">>

Required == Range(REQUIRED_COLUMNS)

\* the columns a header is made of: the required ones, those of a serial
\* log and one that neither schema knows
Columns == Required \cup {"timestamp", "data", "note"}

Headers == SUBSET Columns

DigitChars == <<"0", "1", "2", "3", "4", "5", "6", "7", "8", "9">>

IsDigit(c) == \E d \in 1..Len(DigitChars) : DigitChars[d] = c

DigitOf(c) == (CHOOSE d \in 1..Len(DigitChars) : DigitChars[d] = c) - 1

\* the digits of a decimal literal, its sign removed
Digits(t) == IF t # <<>> /\ t[1] \in {"-", "+"} THEN Tail(t) ELSE t

\* int(text) accepts an optional sign followed by one or more digits and
\* raises ValueError on any other text of this alphabet
IsIntText(t) ==
    /\ Digits(t) # <<>>
    /\ \A i \in 1..Len(Digits(t)) : IsDigit(Digits(t)[i])

RECURSIVE DecOf(_)
DecOf(ds) ==
    IF ds = <<>> THEN 0
    ELSE 10 * DecOf(SubSeq(ds, 1, Len(ds) - 1)) + DigitOf(ds[Len(ds)])

\* int(text) of a text it accepts
IntOf(t) == IF t[1] = "-" THEN -DecOf(Digits(t)) ELSE DecOf(Digits(t))

T_x == <<"x">>
T_1p5 == <<"1", ".", "5">>

RowA ==
    [sensor_id |-> <<"1">>, timestamp_count |-> <<"4", "0">>,
     aclr_x |-> <<"-", "1", "2">>, aclr_y |-> <<"3">>, aclr_z |-> <<"+", "4">>,
     rot_x |-> <<"5">>, rot_y |-> <<"6">>, rot_z |-> <<"7">>]

RowB ==
    [sensor_id |-> <<"2">>, timestamp_count |-> <<"4", "1">>,
     aclr_x |-> <<"0">>, aclr_y |-> <<"-", "3">>, aclr_z |-> <<"9">>,
     rot_x |-> <<"8">>, rot_y |-> <<"1", "0">>, rot_z |-> <<"0", "7">>]

\* the rows of a file with the required columns: two rows of integers, that
\* row with each one of its cells made "x", with a cell made "1.5" and with
\* a cell made empty
CRowValues ==
    {RowA, RowB}
    \cup {[RowA EXCEPT ![c] = T_x] : c \in Required}
    \cup {[RowA EXCEPT !["aclr_x"] = T_1p5], [RowA EXCEPT !["rot_y"] = <<>>]}

\* the rows of a serial-log file given to load_csv
LogRowValues ==
    {[timestamp |-> GoodStamp,
      data |-> [head |-> W_accel, args |-> <<Num(50), Num(69), Num(-25)>>]],
     [timestamp |-> GoodStamp,
      data |-> [head |-> W_gyro, args |-> <<Num(80), BadTok, Num(100), Num(30)>>]],
     [timestamp |-> NoStamp,
      data |-> [head |-> W_gyro, args |-> <<Num(-4), Num(70)>>]],
     [timestamp |-> GoodStamp,
      data |-> [head |-> W_temp, args |-> <<Num(-4), Num(70)>>]]}

\* mutant: the serial-log test comes before the test for the required columns
SchemaOf_serial_first(h) ==
    IF h = {} THEN "no_header"
    ELSE IF {"timestamp", "data"} \subseteq h THEN "serial_log"
    ELSE IF Required \subseteq h THEN "canonical"
    ELSE "unrecognized"

\* the tests load_csv makes on reader.fieldnames, in its order
SchemaOf(h) ==
    IF h = {} THEN "no_header"
    ELSE IF Required \subseteq h THEN "canonical"
    ELSE IF {"timestamp", "data"} \subseteq h THEN "serial_log"
    ELSE "unrecognized"

\* the reader is made and its header tested
LoadOpen ==
    /\ lpc = "open"
    /\ IF SchemaOf(header) = "canonical"
       THEN /\ schema' = "canonical"
            /\ lrows' = <<>>
            /\ li' = 1
            /\ lpc' = "rows"
            /\ UNCHANGED <<lerr, parseVars>>
       ELSE IF SchemaOf(header) = "serial_log"
       THEN /\ schema' = "serial_log"
            /\ lpc' = "serial"
            /\ ri' = 1
            /\ pending_accel' = <<1, 1, 1>>
            /\ readings' = <<>>
            /\ ppc' = "loop"
            /\ UNCHANGED <<rows, lrows, li, lerr>>
       ELSE /\ lerr' = SchemaOf(header)
            /\ lpc' = "raised"
            /\ UNCHANGED <<schema, lrows, li, parseVars>>
    /\ UNCHANGED <<header, crows, lret>>
    /\ UNCHANGED notLoad

\* every required cell of the row is text int() accepts
Coerces(row) == \A c \in Required : IsIntText(row[c])

\* ImuReading.from_row
from_row(row) ==
    [sensor_id |-> IntOf(row.sensor_id),
     timestamp_count |-> IntOf(row.timestamp_count),
     aclr_x |-> IntOf(row.aclr_x), aclr_y |-> IntOf(row.aclr_y),
     aclr_z |-> IntOf(row.aclr_z),
     rot_x |-> IntOf(row.rot_x), rot_y |-> IntOf(row.rot_y),
     rot_z |-> IntOf(row.rot_z)]

\* mutant: a row that does not coerce is skipped
LoadCanonRow_skips_bad ==
    /\ lpc = "rows"
    /\ li <= Len(crows)
    /\ IF Coerces(crows[li])
       THEN lrows' = Append(lrows, from_row(crows[li]))
       ELSE lrows' = lrows
    /\ li' = li + 1
    /\ UNCHANGED <<lpc, lerr>>
    /\ UNCHANGED <<header, crows, schema, lret>>
    /\ UNCHANGED parseVars
    /\ UNCHANGED notLoad

\* "rows.append(ImuReading.from_row(row))": the error of int() leaves load_csv
LoadCanonRow ==
    /\ lpc = "rows"
    /\ li <= Len(crows)
    /\ IF Coerces(crows[li])
       THEN /\ lrows' = Append(lrows, from_row(crows[li]))
            /\ li' = li + 1
            /\ UNCHANGED <<lpc, lerr>>
       ELSE /\ lerr' = "coercion"
            /\ lpc' = "raised"
            /\ UNCHANGED <<lrows, li>>
    /\ UNCHANGED <<header, crows, schema, lret>>
    /\ UNCHANGED parseVars
    /\ UNCHANGED notLoad

\* "return rows"
LoadCanonReturn ==
    /\ lpc = "rows"
    /\ li > Len(crows)
    /\ lret' = <<lrows>>
    /\ lpc' = "ret"
    /\ UNCHANGED <<header, crows, li, lrows, schema, lerr>>
    /\ UNCHANGED parseVars
    /\ UNCHANGED notLoad

\* "return _parse_serial_log(reader)"
LoadSerialReturn ==
    /\ lpc = "serial"
    /\ ppc = "ret"
    /\ lret' = <<readings>>
    /\ lpc' = "ret"
    /\ UNCHANGED <<header, crows, li, lrows, schema, lerr>>
    /\ UNCHANGED parseVars
    /\ UNCHANGED notLoad

\* load_csv, with the parser it calls
NextLoad ==
    \/ LoadOpen
    \/ LoadCanonRow
    \/ LoadCanonReturn
    \/ LoadSerialReturn
    \/ NextParse

\* load_csv on every header over Columns; the rows are those of the columns
\* the header has
InitLoad ==
    /\ EngineOff
    /\ ChunkOff
    /\ EncodeOff
    /\ MainOff
    /\ header \in Headers
    /\ crows \in IF Required \subseteq header
                 THEN SeqsUpTo(CRowValues, MaxCRows) ELSE {<<>>}
    /\ rows \in IF {"timestamp", "data"} \subseteq header
                THEN SeqsUpTo(LogRowValues, MaxFileRows) ELSE {<<>>}
    /\ ri = 1
    /\ pending_accel = <<1, 1, 1>>
    /\ readings = <<>>
    /\ ppc = "off"
    /\ li = 1
    /\ lrows = <<>>
    /\ schema = "none"
    /\ lret = <<>>
    /\ lerr = "none"
    /\ lpc = "open"

SpecLoad == InitLoad /\ [][NextLoad]_vars

(***************************************************************************)
(* Properties of load_csv (checked under SpecLoad).                        *)
(***************************************************************************)
\* C12 as stated: the required columns give the canonical schema; otherwise
\* the header that is exactly {timestamp, data} gives the serial-log schema;
\* every other header fails and yields no readings.
C12_ExactSerialHeader ==
    lpc # "open"
        => IF Required \subseteq header THEN schema = "canonical"
           ELSE IF header = {"timestamp", "data"} THEN schema = "serial_log"
           ELSE lpc = "raised" /\ lret = <<>>

\* C12: the branch load_csv takes is a function of the header set: a header
\* with all eight required columns is read as canonical, whatever else it
\* has; otherwise a header with both timestamp and data, with or without
\* other columns, is read as a serial log; every other header fails with an
\* error, no row is read and nothing is returned.
C12_SchemaByHeader ==
    lpc # "open"
        => IF Required \subseteq header
           THEN schema = "canonical" /\ ppc = "off"
           ELSE IF {"timestamp", "data"} \subseteq header
           THEN schema = "serial_log" /\ lpc \in {"serial", "ret"} /\ lrows = <<>>
           ELSE /\ schema = "none"
                /\ lpc = "raised"
                /\ lerr = IF header = {} THEN "no_header" ELSE "unrecognized"
                /\ lret = <<>>
                /\ lrows = <<>>
                /\ ppc = "off"

\* C12 witness: a file whose header is timestamp, data and one more column
\* was read as a serial log and its gyro row returned as a reading.
C12_Witness ==
    /\ header = {"timestamp", "data", "note"}
    /\ schema = "serial_log"
    /\ lpc = "ret"
    /\ Len(rows) = 1
    /\ lret # <<>>
    /\ Len(lret[1]) = 1

\* the rows of the file that do not coerce
BadRows == {k \in 1..Len(crows) : ~Coerces(crows[k])}

\* C13: under the canonical schema a row with a value int() rejects in any
\* required column makes the load fail with nothing returned, whatever rows
\* came before it; when every row coerces the list returned has one reading
\* per row, in file order, each field the integer of its cell.
C13_AllOrNothing ==
    schema = "canonical"
        => /\ lpc = "rows" => lret = <<>>
           /\ lpc \in {"ret", "raised"}
                => IF BadRows # {}
                   THEN lpc = "raised" /\ lerr = "coercion" /\ lret = <<>>
                   ELSE /\ lpc = "ret"
                        /\ Len(lret) = 1
                        /\ Len(lret[1]) = Len(crows)
                        /\ \A k \in 1..Len(crows) :
                             \A c \in Required : lret[1][k][c] = IntOf(crows[k][c])

\* C13 witness: the second row of a file has "x" in rot_z: the first row had
\* been made a reading (aclr_x = -12) when the load failed, and nothing was
\* returned.
C13_Witness ==
    /\ schema = "canonical"
    /\ crows = <<RowA, [RowA EXCEPT !["rot_z"] = T_x]>>
    /\ lpc = "raised"
    /\ Len(lrows) = 1
    /\ lrows[1].aclr_x = -12 /\ lrows[1].timestamp_count = 40 /\ lrows[1].aclr_z = 4
    /\ lret = <<>>

(***************************************************************************)
(* build_phone_packet: messages_builder.py.                                *)
(*                                                                         *)
(* The builder's buffer is the sequence of the tables written so far and   *)
(* the offset of a table is its index in it. A vector is written back to   *)
(* front: each element prepended comes before those already there.         *)
(***************************************************************************)
\* the readings a list is made of
ReadingValues ==
    {from_row(RowA), from_row(RowB), MakeReading(1, <<1, 1, 1>>, <<8, 1, 10>>)}

\* the tables the generated module "messages" writes between a Start and an
\* End call: each Add call stores its argument in the field it names
Sensor_ID(v) == [type |-> "Sensor_ID", id |-> v]

Timestamp(v) == [type |-> "Timestamp", count |-> v]

Acceleration(v) == [type |-> "Acceleration", val |-> v]

Rotation(v) == [type |-> "Rotation", val |-> v]

Positional_Readings(o_id, o_time, o_ax, o_ay, o_az, o_rx, o_ry, o_rz) ==
    [type |-> "Positional_Readings", id |-> o_id, time |-> o_time,
     aclr_x |-> o_ax, aclr_y |-> o_ay, aclr_z |-> o_az,
     rot_x |-> o_rx, rot_y |-> o_ry, rot_z |-> o_rz]

Phone_Packet(readings_vec) == [type |-> "Phone_Packet", readings |-> readings_vec]

\* the tables of one reading: eight tables of one scalar each, then the
\* Positional_Readings table that holds their offsets; base is the length of
\* the buffer before them
ReadingTables(r, base) ==
    <<Sensor_ID(r.sensor_id),
      Timestamp(r.timestamp_count),
      Acceleration(r.aclr_x),
      Acceleration(r.aclr_y),
      Acceleration(r.aclr_z),
      Rotation(r.rot_x),
      Rotation(r.rot_y),
      Rotation(r.rot_z),
      Positional_Readings(base + 1, base + 2, base + 3, base + 4, base + 5,
                          base + 6, base + 7, base + 8)>>

\* reversed(s)
Reversed(s) == [i \in 1..Len(s) |-> s[Len(s) + 1 - i]]

\* mutant: the offsets are prepended first to last
PrependOrder_forward(offsets) == offsets

\* "for offset in reversed(reading_offsets)"
PrependOrder(offsets) == Reversed(offsets)

\* build_phone_packet is called on a list of readings
InitEncode ==
    /\ EngineOff
    /\ ChunkOff
    /\ ParseOff
    /\ LoadOff
    /\ MainOff
    /\ readings_list \in SeqsUpTo(ReadingValues, MaxReadings)
    /\ buffer = <<>>
    /\ reading_offsets = <<>>
    /\ vec = <<>>
    /\ ei = 1
    /\ packet = <<>>
    /\ epc = "tables"

\* one turn of "for reading in readings_list"
EncodeReading ==
    /\ epc = "tables"
    /\ ei <= Len(readings_list)
    /\ buffer' = buffer \o ReadingTables(readings_list[ei], Len(buffer))
    /\ reading_offsets' = Append(reading_offsets, Len(buffer'))
    /\ ei' = ei + 1
    /\ UNCHANGED <<readings_list, vec, packet, epc>>
    /\ UNCHANGED notEncode

\* Phone_PacketStartReadingsVector(builder, len(reading_offsets))
EncodeStartVector ==
    /\ epc = "tables"
    /\ ei > Len(readings_list)
    /\ vec' = <<>>
    /\ ei' = 1
    /\ epc' = "vector"
    /\ UNCHANGED <<readings_list, buffer, reading_offsets, packet>>
    /\ UNCHANGED notEncode

\* builder.PrependUOffsetTRelative(offset)
EncodePrepend ==
    /\ epc = "vector"
    /\ ei <= Len(reading_offsets)
    /\ vec' = <<PrependOrder(reading_offsets)[ei]>> \o vec
    /\ ei' = ei + 1
    /\ UNCHANGED <<readings_list, buffer, reading_offsets, packet, epc>>
    /\ UNCHANGED notEncode

\* EndVector, the Phone_Packet table, Finish and "return bytes(builder.Output())"
EncodeFinish ==
    /\ epc = "vector"
    /\ ei > Len(reading_offsets)
    /\ buffer' = Append(buffer, Phone_Packet(vec))
    /\ packet' = <<[buffer |-> buffer', root |-> Len(buffer')]>>
    /\ epc' = "ret"
    /\ UNCHANGED <<readings_list, reading_offsets, vec, ei>>
    /\ UNCHANGED notEncode

NextEncode ==
    \/ EncodeReading
    \/ EncodeStartVector
    \/ EncodePrepend
    \/ EncodeFinish

SpecEncode == InitEncode /\ [][NextEncode]_vars

(***************************************************************************)
(* Properties of build_phone_packet (checked under SpecEncode).            *)
(***************************************************************************)
\* the records a reader finds in a packet: it follows the root table to the
\* readings vector, each offset of the vector to a Positional_Readings
\* table, and each offset of that table to the scalar
Records(p) ==
    LET root == p.buffer[p.root]
    IN  [i \in 1..Len(root.readings) |->
            LET t == p.buffer[root.readings[i]]
            IN  [sensor_id |-> p.buffer[t.id].id,
                 timestamp_count |-> p.buffer[t.time].count,
                 aclr_x |-> p.buffer[t.aclr_x].val,
                 aclr_y |-> p.buffer[t.aclr_y].val,
                 aclr_z |-> p.buffer[t.aclr_z].val,
                 rot_x |-> p.buffer[t.rot_x].val,
                 rot_y |-> p.buffer[t.rot_y].val,
                 rot_z |-> p.buffer[t.rot_z].val]]

\* C15: the packet built from N readings, N >= 0, holds exactly N records,
\* the i-th record carrying the eight fields of the i-th reading; for N = 0
\* a packet is returned and it holds no record.
C15_CountAndOrder ==
    /\ epc \in {"tables", "vector", "ret"}
    /\ epc # "ret" => packet = <<>>
    /\ epc = "ret"
        => /\ Len(packet) = 1
           /\ Len(Records(packet[1])) = Len(readings_list)
           /\ \A i \in 1..Len(readings_list) :
                Records(packet[1])[i] = readings_list[i]

\* C15 witness: three readings, the first and the last different, were
\* encoded: the packet's first record has the timestamp of the first reading
\* and its last record the rotation of the last.
C15_Witness ==
    /\ epc = "ret"
    /\ readings_list = <<from_row(RowA), from_row(RowB),
                         MakeReading(1, <<1, 1, 1>>, <<8, 1, 10>>)>>
    /\ Len(Records(packet[1])) = 3
    /\ Records(packet[1])[1].timestamp_count = 40
    /\ Records(packet[1])[2].sensor_id = 2
    /\ Records(packet[1])[3].rot_z = 10

(***************************************************************************)
(* async_main: main.py.                                                    *)
(***************************************************************************)
\* the headers of the files given to async_main: none, the required
\* columns, those of a serial log, and a column no schema knows
MainHeaders == {{}, Required, {"timestamp", "data"}, {"note"}}

\* the rows of those files
MainCRowValues == {RowA, [RowA EXCEPT !["rot_z"] = T_x]}

MainLogRowValues ==
    {[timestamp |-> GoodStamp,
      data |-> [head |-> W_accel, args |-> <<Num(50), Num(69), Num(-25)>>]],
     [timestamp |-> GoodStamp,
      data |-> [head |-> W_gyro, args |-> <<Num(80), BadTok, Num(100), Num(30)>>]],
     [timestamp |-> GoodStamp,
      data |-> [head |-> W_temp, args |-> <<Num(-4), Num(70)>>]]}

\* bytes(builder.Output()): the buffer, a table standing for the bytes that
\* hold it
Output(p) == p.buffer

\* async_main is entered: a path that may not exist, a file, the arguments
InitMain ==
    /\ EngineOff
    /\ ChunkOff
    /\ EncodeOff
    /\ csvExists \in BOOLEAN
    /\ header \in IF csvExists THEN MainHeaders ELSE {{}}
    /\ crows \in IF Required \subseteq header
                 THEN SeqsUpTo(MainCRowValues, MaxFileRows) ELSE {<<>>}
    /\ rows \in IF {"timestamp", "data"} \subseteq header
                THEN SeqsUpTo(MainLogRowValues, MaxFileRows) ELSE {<<>>}
    /\ ri = 1
    /\ pending_accel = <<1, 1, 1>>
    /\ readings = <<>>
    /\ ppc = "off"
    /\ li = 1
    /\ lrows = <<>>
    /\ schema = "none"
    /\ lret = <<>>
    /\ lerr = "none"
    /\ lpc = "off"
    /\ once \in BOOLEAN
    /\ argMtu = MaxMtu * 4
    /\ encodes = 0
    /\ mexc = "none"
    /\ mpc = "exists"

\* "if not args.csv.exists(): raise FileNotFoundError", else load_csv is called
MainExists ==
    /\ mpc = "exists"
    /\ IF csvExists
       THEN /\ mpc' = "load"
            /\ lpc' = "open"
            /\ UNCHANGED mexc
       ELSE /\ mexc' = "FileNotFoundError"
            /\ mpc' = "raised"
            /\ UNCHANGED lpc
    /\ UNCHANGED <<csvExists, once, argMtu, encodes>>
    /\ UNCHANGED <<header, crows, li, lrows, schema, lret, lerr>>
    /\ UNCHANGED <<engineVars, chunkVars, parseVars, encVars>>

\* mutant: an error of load_csv is caught and the run goes on with no reading
MainLoadRaised_falls_back ==
    /\ mpc = "load"
    /\ lpc = "raised"
    /\ readings_list' = <<>>
    /\ buffer' = <<>>
    /\ reading_offsets' = <<>>
    /\ vec' = <<>>
    /\ ei' = 1
    /\ packet' = <<>>
    /\ epc' = "tables"
    /\ encodes' = encodes + 1
    /\ mexc' = lerr
    /\ mpc' = "build"
    /\ UNCHANGED <<csvExists, once, argMtu>>
    /\ UNCHANGED <<engineVars, chunkVars, parseVars, loadVars>>

\* the error of load_csv leaves async_main: no handler around the call
MainLoadRaised ==
    /\ mpc = "load"
    /\ lpc = "raised"
    /\ mexc' = lerr
    /\ mpc' = "raised"
    /\ UNCHANGED <<csvExists, once, argMtu, encodes>>
    /\ UNCHANGED <<engineVars, chunkVars, parseVars, loadVars, encVars>>

\* "payload = build_phone_packet(readings)" is called on the list returned
MainBuild ==
    /\ mpc = "load"
    /\ lpc = "ret"
    /\ readings_list' = lret[1]
    /\ buffer' = <<>>
    /\ reading_offsets' = <<>>
    /\ vec' = <<>>
    /\ ei' = 1
    /\ packet' = <<>>
    /\ epc' = "tables"
    /\ encodes' = encodes + 1
    /\ mpc' = "build"
    /\ UNCHANGED <<csvExists, once, argMtu, mexc>>
    /\ UNCHANGED <<engineVars, chunkVars, parseVars, loadVars>>

\* the config is made, "streamer = BleStreamer(payload, config)" picks the
\* backend of the platform and cuts the payload, and streamer.run() is called
MainStream ==
    /\ mpc = "build"
    /\ epc = "ret"
    /\ backend' \in {"winrt", "bless"}
    /\ payload' = Output(packet[1])
    /\ mtu' = argMtu
    /\ loop_forever' = ~once
    /\ chunks' = chunk_bytes(Output(packet[1]), argMtu)
    /\ pc' = "run"
    /\ mpc' = "stream"
    /\ UNCHANGED <<server, characteristic, advertising, adv_started, stop_evt,
                   charValue, srvRunning, subs, subscribers, ci, ki, pass, exc,
                   sent, snaps, startCalls, runStops, extStops, teardowns, churn,
                   stopAt>>
    /\ UNCHANGED <<csvExists, once, argMtu, encodes, mexc>>
    /\ UNCHANGED <<chunkVars, parseVars, loadVars, encVars>>

\* streamer.run() is over: async_main returns, or the exception of the run
\* leaves it
MainReturn ==
    /\ mpc = "stream"
    /\ pc = "done"
    /\ mexc' = exc
    /\ mpc' = IF exc = "none" THEN "ret" ELSE "raised"
    /\ UNCHANGED <<csvExists, once, argMtu, encodes>>
    /\ UNCHANGED <<engineVars, chunkVars, parseVars, loadVars, encVars>>

NextMain ==
    \/ MainExists
    \/ MainLoadRaised
    \/ MainBuild
    \/ MainStream
    \/ MainReturn
    \/ NextLoad
    \/ NextEncode
    \/ Next

SpecMain == InitMain /\ [][NextMain]_vars

(***************************************************************************)
(* Properties of async_main (checked under SpecMain).                      *)
(***************************************************************************)
\* the file is missing, its header matches neither schema, or a row of the
\* canonical schema does not coerce
BadInput ==
    \/ ~csvExists
    \/ ~(Required \subseteq header) /\ ~({"timestamp", "data"} \subseteq header)
    \/ Required \subseteq header /\ BadRows # {}

\* C14: in a run on a missing file, on a header that matches neither schema
\* or on a canonical file with a row that does not coerce, the streamer is
\* never constructed, start() is never called, nothing is sent and the
\* packet is never built: the run ends with the error of the input.
C14_FailsBeforeBle ==
    /\ BadInput
        => /\ pc = "off"
           /\ startCalls = 0
           /\ sent = <<>>
           /\ srvRunning = FALSE
           /\ encodes = 0
           /\ mpc \in {"exists", "load", "raised"}
    /\ (mpc = "raised" /\ pc = "off")
        => mexc \in {"FileNotFoundError", "no_header", "unrecognized", "coercion"}

\* C14 witness: the run on a canonical file whose row has "x" in rot_z has
\* ended with the coercion error, no streamer made.
C14_Witness ==
    /\ csvExists
    /\ header = Required
    /\ Len(crows) = 1
    /\ BadRows = {1}
    /\ mpc = "raised"
    /\ mexc = "coercion"
    /\ pc = "off"

\* C19: the packet is built once in a run and the streamer's payload is its
\* bytes; the chunk list is chunk(payload, mtu) from the construction on and
\* payload, mtu and chunk list never change afterwards; every notification
\* sent, in whatever pass and to whatever client, carries the chunk of its
\* index in chunk(payload, mtu).
C19_ChunksFixed ==
    /\ [](encodes <= 1)
    /\ [](mpc = "stream"
            => /\ encodes = 1
               /\ payload = Output(packet[1])
               /\ mtu = argMtu
               /\ chunks = chunk_bytes(payload, mtu)
               /\ startCalls = 0 => pc = "run"
               /\ \A i \in 1..Len(sent) :
                    /\ sent[i].k \in 1..Len(chunk_bytes(payload, mtu))
                    /\ sent[i].data = chunk_bytes(payload, mtu)[sent[i].k])
    /\ [][mpc = "stream"
            => /\ payload' = payload
               /\ mtu' = mtu
               /\ chunks' = chunks
               /\ encodes' = encodes]_vars

\* C19 witness: in a looping run on a payload of two chunks, a second pass
\* has sent the second chunk, after the subscribers changed.
C19_Witness ==
    /\ mpc = "stream"
    /\ loop_forever
    /\ Len(chunks) = 2
    /\ chunks[1] # chunks[2]
    /\ churn >= 2
    /\ \E i \in 1..Len(sent) :
         sent[i].p = 2 /\ sent[i].k = 2 /\ sent[i].data = chunks[2]

(***************************************************************************)
(* Properties of the characteristic's value and of stop() (checked under   *)
(* Spec) and of a streamer run again (checked under SpecReuse).            *)
(***************************************************************************)
\* C16 as stated: once start() has completed, a read of the characteristic
\* returns the first chunk in every state of the run.
C16_ReadIsFirstChunk ==
    adv_started => charValue = <<chunks[1]>>

\* C16: once start() has completed, on WinRT the value a read returns is the
\* first chunk in every state when the payload is not empty and no value is
\* set when it is empty; on Bless it is the first chunk until a notification
\* is attempted and from then on the chunk of the last notification
\* attempted, so that every chunk can come to be read.
C16_ReadValue ==
    adv_started
        => IF backend = "winrt"
           THEN charValue = IF payload # <<>> THEN <<chunks[1]>> ELSE <<>>
           ELSE IF exc = "notify_failed" THEN charValue = <<chunks[ki]>>
           ELSE IF sent = <<>> THEN charValue = <<chunks[1]>>
           ELSE /\ charValue = <<sent[Len(sent)].data>>
                /\ charValue = <<chunks[sent[Len(sent)].k]>>

\* C16 witness: on Bless, after the second of two different chunks was
\* notified, a read returns the second chunk.
C16_Witness ==
    /\ backend = "bless"
    /\ adv_started
    /\ Len(chunks) = 2
    /\ chunks[1] # chunks[2]
    /\ sent # <<>>
    /\ sent[Len(sent)].k = 2
    /\ charValue = <<chunks[2]>>

\* C17 as stated: however often and in whatever state stop() is called, the
\* server or the advertising is torn down at most once.
C17_TearDownOnce ==
    teardowns <= 1

\* C20: the stop event, once set, is never cleared; after the stop() of a
\* run, no later run on the same streamer sends a notification or begins a
\* pass, even when its start() succeeds and a client is subscribed; such a
\* run is in its loop only with the event set.
C20_StopSticky ==
    /\ [][stop_evt => stop_evt']_vars
    /\ [][runStops >= 1 => sent' = sent /\ pass' = pass]_vars
    /\ [](startCalls >= 2 /\ pc \in {"loop", "poll", "poll_sleep", "notify", "chunk_sleep"}
            => stop_evt /\ pc = "loop")

\* C20 witness: a second run() on a streamer whose first run sent chunks has
\* started its server again and is at the head of its loop with a client
\* subscribed and the stop event set.
C20_Witness ==
    /\ startCalls = 2
    /\ runStops = 1
    /\ sent # <<>>
    /\ pc = "loop"
    /\ exc = "none"
    /\ srvRunning
    /\ subs # {}
    /\ stop_evt

(***************************************************************************)
(* Properties of a single-pass run under fair scheduling (checked under    *)
(* SpecLive).                                                              *)
(***************************************************************************)
\* the engine waits for a subscriber: at the head of its loop, in a poll or
\* in the sleep after a poll that found none
Waiting == {"loop", "poll", "poll_sleep"}

\* C21: with loop_forever = False, once a poll has observed a subscriber (a
\* pass has begun) and every call returns, run() eventually reaches its end,
\* stop() called; and from a waiting position with no stop requested, a step
\* in which no poll observes a subscriber and no cancellation arrives leaves
\* the engine waiting: it does not end on its own.
C21_EndsIffSubscriberSeen ==
    /\ (~loop_forever /\ pass >= 1) ~> (pc = "done" /\ runStops = 1)
    /\ [][(pc \in Waiting /\ ~stop_evt /\ pass' = pass /\ exc' # "cancelled")
            => pc' \in Waiting /\ runStops' = runStops]_vars

\* C21 witness: a single-pass run whose poll observed a subscriber has sent
\* its chunks and ended with no exception.
C21_Witness ==
    /\ ~loop_forever
    /\ pass = 1
    /\ sent # <<>>
    /\ exc = "none"
    /\ extStops = 0
    /\ pc = "done"
    /\ runStops = 1

=============================================================================
